---------------------------- MODULE Spec2Model ----------------------------
(***************************************************************************)
(* Model of the packet size guard and the packet header types of the       *)
(* f1-api crate.                                                           *)
(*                                                                         *)
(*   src/src/packet.rs          ensure_packet_size, tests::decode_packet   *)
(*   src/src/packet/header.rs   GameVersion (derived Ord / PartialEq)      *)
(*                                                                         *)
(* Three groups of state:                                                  *)
(*   - one caller with one buffer and one cursor (buf, pos, pc, last,      *)
(*     entry, unread): specifications Spec and SpecGuard;                  *)
(*   - two workers, each with its own buffer and cursor (wbuf, wpos, wpc,  *)
(*     wres, wentry): specification SpecWorkers;                           *)
(*   - two GameVersion values and the results of comparing them (va, vb,   *)
(*     ord, eq, lt): specification SpecVersion.                            *)
(***************************************************************************)
EXTENDS Integers, Sequences, FiniteSets

VARIABLES
    buf,      \* the BytesMut behind the cursor: a sequence of bytes
    pos,      \* the cursor's position
    pc,       \* "idle", or "guarded": inside decode_packet, guard passed
    last,     \* the last completed call: [call, arg, ret]
    entry,    \* buf, pos and unread as they were when the last call began
    unread,   \* history: the bytes supplied and not yet returned in a packet
    retrying, \* history: a decode_packet has failed since the last one that succeeded
    wbuf,     \* per worker: its buffer
    wpos,     \* per worker: its cursor's position
    wpc,      \* per worker: "idle", "guarded" or "done"
    wres,     \* per worker: the return value of its last decode_packet
    wentry,   \* per worker: the cursor position when its last decode began
    va,       \* a GameVersion
    vb,       \* a GameVersion
    ord,      \* va.cmp(&vb), or "none" before the comparison
    eq,       \* va == vb
    lt        \* va < vb

cursorVars  == <<buf, pos, pc, last, entry, unread, retrying>>
workerVars  == <<wbuf, wpos, wpc, wres, wentry>>
versionVars == <<va, vb, ord, eq, lt>>
vars        == <<buf, pos, pc, last, entry, unread, retrying,
                 wbuf, wpos, wpc, wres, wentry, va, vb, ord, eq, lt>>

----------------------------------------------------------------------------
(* Bounds *)

MaxLen == 3

MaxByte == 1

MaxExpected == 11

WMaxLen == 2

MaxVer == 9

(* const PACKET_SIZE: usize = 1; *)
PACKET_SIZE == 1

Byte == 0..MaxByte

ExpectedSizes == 0..MaxExpected

Workers == {1, 2}

RECURSIVE SeqsUpTo(_, _)
SeqsUpTo(S, n) ==
    IF n = 0 THEN {<<>>}
    ELSE LET shorter == SeqsUpTo(S, n - 1)
         IN  shorter \cup {Append(s, x) : s \in {t \in shorter : Len(t) = n - 1}, x \in S}

----------------------------------------------------------------------------
(* Return values *)

OkUnit == [tag |-> "Ok"]

OkPacket(c) == [tag |-> "Ok", packet |-> [counter |-> c]]

Err(k, m) == [tag |-> "Err", kind |-> k, message |-> m]

Panic == [tag |-> "Panic"]

NoCall == [call |-> "none", arg |-> 0, ret |-> OkUnit]

----------------------------------------------------------------------------
(* format!("{}", n) for an unsigned integer: its decimal digits *)

Digit == <<"0", "1", "2", "3", "4", "5", "6", "7", "8", "9">>

RECURSIVE Decimal(_)
Decimal(n) ==
    IF n < 10 THEN <<Digit[n + 1]>>
    ELSE Decimal(n \div 10) \o <<Digit[(n % 10) + 1]>>

MessageSwapped(expected_size, actual) ==
    <<"Packet is expected to have a size of ">> \o Decimal(actual)
        \o <<" bytes, but was ">> \o Decimal(expected_size) \o <<".">>

(* format!("Packet is expected to have a size of {} bytes, but was {}.",
           expected_size, cursor.remaining()) *)
Message(expected_size, actual) ==
    <<"Packet is expected to have a size of ">> \o Decimal(expected_size)
        \o <<" bytes, but was ">> \o Decimal(actual) \o <<".">>

----------------------------------------------------------------------------
(* The cursor *)

remaining_from_start(b, p) == Len(b)

(* cursor.remaining(): the bytes between the position and the end of the
   buffer, 0 when the position is at or past the end *)
remaining(b, p) == IF p >= Len(b) THEN 0 ELSE Len(b) - p

ensure_packet_size_off_by_one(expected_size, b, p) ==
    [ret |-> IF remaining(b, p) + 1 < expected_size
             THEN Err("UnexpectedEof", Message(expected_size, remaining(b, p)))
             ELSE OkUnit,
     buf |-> b,
     pos |-> p]

ensure_packet_size_consuming(expected_size, b, p) ==
    [ret |-> IF remaining(b, p) < expected_size
             THEN Err("UnexpectedEof", Message(expected_size, remaining(b, p)))
             ELSE OkUnit,
     buf |-> b,
     pos |-> p + expected_size]

(* ensure_packet_size(expected_size, cursor): the value it returns, and the
   buffer and the cursor position it leaves *)
ensure_packet_size(expected_size, b, p) ==
    [ret |-> IF remaining(b, p) < expected_size
             THEN Err("UnexpectedEof", Message(expected_size, remaining(b, p)))
             ELSE OkUnit,
     buf |-> b,
     pos |-> p]

get_u8_stuck(b, p) ==
    IF remaining(b, p) < 1
    THEN [panic |-> TRUE, value |-> 0, buf |-> b, pos |-> p]
    ELSE [panic |-> FALSE, value |-> b[p + 1], buf |-> b, pos |-> p]

(* cursor.get_u8(): the byte at the position, and the position advanced by
   one; it panics when no byte remains *)
get_u8(b, p) ==
    IF remaining(b, p) < 1
    THEN [panic |-> TRUE, value |-> 0, buf |-> b, pos |-> p]
    ELSE [panic |-> FALSE, value |-> b[p + 1], buf |-> b, pos |-> p + 1]

(* decode_packet(cursor) run from start to end by one caller *)
decode_packet(b, p) ==
    LET g == ensure_packet_size(PACKET_SIZE, b, p)
    IN  IF g.ret.tag = "Err" THEN g
        ELSE LET r == get_u8(g.buf, g.pos)
             IN  [ret |-> IF r.panic THEN Panic ELSE OkPacket(r.value),
                  buf |-> r.buf,
                  pos |-> r.pos]

Snapshot == [buf |-> buf, pos |-> pos, unread |-> unread, retrying |-> retrying]

----------------------------------------------------------------------------
(* One caller *)

WorkersIdle ==
    /\ wbuf = [w \in Workers |-> <<>>]
    /\ wpos = [w \in Workers |-> 0]
    /\ wpc = [w \in Workers |-> "idle"]
    /\ wres = [w \in Workers |-> OkUnit]
    /\ wentry = [w \in Workers |-> 0]

VersionsIdle ==
    /\ va = [major |-> 0, minor |-> 0]
    /\ vb = [major |-> 0, minor |-> 0]
    /\ ord = "none"
    /\ eq = FALSE
    /\ lt = FALSE

(* let mut bytes = BytesMut::with_capacity(..); let mut cursor = Cursor::new(&mut bytes); *)
Init ==
    /\ buf = <<>>
    /\ pos = 0
    /\ pc = "idle"
    /\ last = NoCall
    /\ entry = [buf |-> <<>>, pos |-> 0, unread |-> <<>>, retrying |-> FALSE]
    /\ unread = <<>>
    /\ retrying = FALSE
    /\ WorkersIdle
    /\ VersionsIdle

(* bytes.put_u8(b) *)
put_u8(b) ==
    /\ pc = "idle"
    /\ Len(buf) < MaxLen
    /\ buf' = Append(buf, b)
    /\ unread' = Append(unread, b)
    /\ last' = [call |-> "put_u8", arg |-> b, ret |-> OkUnit]
    /\ entry' = Snapshot
    /\ UNCHANGED <<pos, pc, retrying>>
    /\ UNCHANGED <<workerVars, versionVars>>

(* Cursor::new(&mut bytes) over the bytes accumulated so far *)
NewCursor ==
    /\ pc = "idle"
    /\ pos' = 0
    /\ unread' = buf
    /\ last' = [call |-> "Cursor::new", arg |-> 0, ret |-> OkUnit]
    /\ entry' = Snapshot
    /\ retrying' = FALSE
    /\ UNCHANGED <<buf, pc>>
    /\ UNCHANGED <<workerVars, versionVars>>

(* ensure_packet_size(e, &mut cursor) called on its own *)
Guard(e) ==
    /\ pc = "idle"
    /\ LET g == ensure_packet_size(e, buf, pos)
       IN  /\ buf' = g.buf
           /\ pos' = g.pos
           /\ last' = [call |-> "ensure_packet_size", arg |-> e, ret |-> g.ret]
    /\ entry' = Snapshot
    /\ UNCHANGED <<pc, unread, retrying>>
    /\ UNCHANGED <<workerVars, versionVars>>

(* decode_packet: ensure_packet_size(PACKET_SIZE, cursor)?; *)
DecodeGuard ==
    /\ pc = "idle"
    /\ LET g == ensure_packet_size(PACKET_SIZE, buf, pos)
       IN  /\ buf' = g.buf
           /\ pos' = g.pos
           /\ IF g.ret.tag = "Err"
              THEN /\ last' = [call |-> "decode_packet", arg |-> PACKET_SIZE, ret |-> g.ret]
                   /\ pc' = "idle"
                   /\ retrying' = TRUE
              ELSE /\ last' = last
                   /\ pc' = "guarded"
                   /\ retrying' = retrying
    /\ entry' = Snapshot
    /\ UNCHANGED unread
    /\ UNCHANGED <<workerVars, versionVars>>

(* decode_packet: Ok(Packet { counter: cursor.get_u8() }) *)
DecodeRead ==
    /\ pc = "guarded"
    /\ LET r == get_u8(buf, pos)
       IN  /\ buf' = r.buf
           /\ pos' = r.pos
           /\ last' = [call |-> "decode_packet", arg |-> PACKET_SIZE,
                       ret |-> IF r.panic THEN Panic ELSE OkPacket(r.value)]
           /\ unread' = IF r.panic \/ unread = <<>> THEN unread ELSE Tail(unread)
           /\ retrying' = IF r.panic THEN retrying ELSE FALSE
    /\ pc' = "idle"
    /\ UNCHANGED entry
    /\ UNCHANGED <<workerVars, versionVars>>

Next ==
    \/ \E b \in Byte : put_u8(b)
    \/ NewCursor
    \/ \E e \in ExpectedSizes : Guard(e)
    \/ DecodeGuard
    \/ DecodeRead

Spec == Init /\ [][Next]_vars

----------------------------------------------------------------------------
(* The size guard as a function of its inputs: any buffer, any position *)

InitGuard ==
    /\ buf \in SeqsUpTo(Byte, MaxLen)
    /\ pos \in 0..(MaxLen + 1)
    /\ pc = "idle"
    /\ last = NoCall
    /\ entry = [buf |-> buf, pos |-> pos, unread |-> <<>>, retrying |-> FALSE]
    /\ unread = <<>>
    /\ retrying = FALSE
    /\ WorkersIdle
    /\ VersionsIdle

NextGuard == \E e \in ExpectedSizes : Guard(e)

SpecGuard == InitGuard /\ [][NextGuard]_vars

----------------------------------------------------------------------------
(* Two workers, each decoding from its own buffer through its own cursor *)

StoreShared(f, w, x) == [v \in Workers |-> x]

(* a write through the worker's own `cursor: &mut Cursor<&mut BytesMut>`:
   the exclusive borrow reaches that worker's buffer and position only *)
Store(f, w, x) == [f EXCEPT ![w] = x]

InitWorkers ==
    /\ WorkersIdle
    /\ buf = <<>>
    /\ pos = 0
    /\ pc = "idle"
    /\ last = NoCall
    /\ entry = [buf |-> <<>>, pos |-> 0, unread |-> <<>>, retrying |-> FALSE]
    /\ unread = <<>>
    /\ retrying = FALSE
    /\ VersionsIdle

(* worker w: bytes.put_u8(b), between two decode calls *)
w_put_u8(w, b) ==
    /\ wpc[w] \in {"idle", "done"}
    /\ Len(wbuf[w]) < WMaxLen
    /\ wbuf' = Store(wbuf, w, Append(wbuf[w], b))
    /\ wpc' = [wpc EXCEPT ![w] = "idle"]
    /\ wres' = [wres EXCEPT ![w] = OkUnit]
    /\ wentry' = [wentry EXCEPT ![w] = 0]
    /\ UNCHANGED wpos
    /\ UNCHANGED <<cursorVars, versionVars>>

(* worker w, decode_packet: ensure_packet_size(PACKET_SIZE, cursor)?; *)
WDecodeGuard(w) ==
    /\ wpc[w] \in {"idle", "done"}
    /\ LET g == ensure_packet_size(PACKET_SIZE, wbuf[w], wpos[w])
       IN  /\ wbuf' = Store(wbuf, w, g.buf)
           /\ wpos' = Store(wpos, w, g.pos)
           /\ IF g.ret.tag = "Err"
              THEN /\ wres' = [wres EXCEPT ![w] = g.ret]
                   /\ wpc' = [wpc EXCEPT ![w] = "done"]
              ELSE /\ wres' = [wres EXCEPT ![w] = OkUnit]
                   /\ wpc' = [wpc EXCEPT ![w] = "guarded"]
    /\ wentry' = [wentry EXCEPT ![w] = wpos[w]]
    /\ UNCHANGED <<cursorVars, versionVars>>

(* worker w, decode_packet: Ok(Packet { counter: cursor.get_u8() }) *)
WDecodeRead(w) ==
    /\ wpc[w] = "guarded"
    /\ LET r == get_u8(wbuf[w], wpos[w])
       IN  /\ wbuf' = Store(wbuf, w, r.buf)
           /\ wpos' = Store(wpos, w, r.pos)
           /\ wres' = [wres EXCEPT ![w] = IF r.panic THEN Panic ELSE OkPacket(r.value)]
    /\ wpc' = [wpc EXCEPT ![w] = "done"]
    /\ UNCHANGED wentry
    /\ UNCHANGED <<cursorVars, versionVars>>

NextWorkers ==
    \/ \E w \in Workers, b \in Byte : w_put_u8(w, b)
    \/ \E w \in Workers : WDecodeGuard(w)
    \/ \E w \in Workers : WDecodeRead(w)

SpecWorkers == InitWorkers /\ [][NextWorkers]_vars

----------------------------------------------------------------------------
(* GameVersion: #[derive(PartialEq, Eq, Ord, PartialOrd)] on
   struct GameVersion { major: u8, minor: u8 } *)

Versions == [major : 0..MaxVer, minor : 0..MaxVer]

(* u8::cmp *)
CmpU8(x, y) == IF x < y THEN "Less" ELSE IF x = y THEN "Equal" ELSE "Greater"

CmpMinorFirst(a, b) ==
    LET m == CmpU8(a.minor, b.minor)
    IN  IF m # "Equal" THEN m ELSE CmpU8(a.major, b.major)

(* the derived Ord::cmp (and PartialOrd::partial_cmp): the fields in the
   order they are declared, the first that differs decides *)
Cmp(a, b) ==
    LET m == CmpU8(a.major, b.major)
    IN  IF m # "Equal" THEN m ELSE CmpU8(a.minor, b.minor)

(* the derived PartialEq::eq: every field equal *)
Eq(a, b) == a.major = b.major /\ a.minor = b.minor

(* PartialOrd::lt: partial_cmp is Some(Less) *)
Lt(a, b) == Cmp(a, b) = "Less"

InitVersion ==
    /\ va \in Versions
    /\ vb \in Versions
    /\ ord = "none"
    /\ eq = FALSE
    /\ lt = FALSE
    /\ buf = <<>>
    /\ pos = 0
    /\ pc = "idle"
    /\ last = NoCall
    /\ entry = [buf |-> <<>>, pos |-> 0, unread |-> <<>>, retrying |-> FALSE]
    /\ unread = <<>>
    /\ retrying = FALSE
    /\ WorkersIdle

(* va.cmp(&vb), va == vb, va < vb *)
Compare ==
    /\ ord = "none"
    /\ ord' = Cmp(va, vb)
    /\ eq' = Eq(va, vb)
    /\ lt' = Lt(va, vb)
    /\ UNCHANGED <<va, vb>>
    /\ UNCHANGED <<cursorVars, workerVars>>

NextVersion == Compare

SpecVersion == InitVersion /\ [][NextVersion]_vars

----------------------------------------------------------------------------
(* Reading the byte counts back out of an error message: the decimal numbers
   in it, in the order they appear *)

IsDigit(c) == \E d \in 1..10 : Digit[d] = c

DigitValue(c) == (CHOOSE d \in 1..10 : Digit[d] = c) - 1

RECURSIVE Scan(_, _, _, _)
Scan(msg, i, cur, acc) ==
    IF i > Len(msg)
    THEN IF cur >= 0 THEN Append(acc, cur) ELSE acc
    ELSE IF IsDigit(msg[i])
         THEN Scan(msg, i + 1, (IF cur < 0 THEN 0 ELSE cur) * 10 + DigitValue(msg[i]), acc)
         ELSE Scan(msg, i + 1, -1, IF cur >= 0 THEN Append(acc, cur) ELSE acc)

ByteCounts(msg) == Scan(msg, 1, -1, <<>>)

GuardReturned == pc = "idle" /\ last.call = "ensure_packet_size"

DecodeReturned == pc = "idle" /\ last.call = "decode_packet"

----------------------------------------------------------------------------
(* Claims *)

(* C1: for every expected size e and every cursor with remaining() = r,
   ensure_packet_size(e, cursor) returns Ok exactly when r >= e and an error
   exactly when r < e. *)
C1_OkIffEnoughRemaining ==
    GuardReturned =>
        LET r == remaining(entry.buf, entry.pos)
        IN  /\ last.ret.tag = "Ok" <=> r >= last.arg
            /\ last.ret.tag = "Err" <=> r < last.arg

C1_Witness ==
    /\ GuardReturned
    /\ last.ret.tag = "Err"
    /\ remaining(entry.buf, entry.pos) > 0
    /\ remaining(entry.buf, entry.pos) + 1 = last.arg

(* C2: ensure_packet_size only inspects: on success and on failure alike the
   cursor position and the buffer's contents and length are after the call
   what they were before it, and a call repeated right after another with
   the same expected size returns the same value. *)
C2_GuardOnlyInspects ==
    [][last'.call = "ensure_packet_size" =>
          /\ buf' = buf
          /\ pos' = pos
          /\ (last.call = "ensure_packet_size" /\ last.arg = last'.arg)
                => last'.ret = last.ret]_vars

C2_Witness ==
    /\ GuardReturned
    /\ last.ret.tag = "Ok"
    /\ last.arg = 2
    /\ pos = 1
    /\ Len(buf) = 3

(* C3: a failing ensure_packet_size returns an error of kind UnexpectedEof
   whose message carries the expected size (the argument) and then the
   actual size (remaining() at the call); for a buffer one byte short of the
   expected size, read from position 0, these are the packet size and the
   length of the truncated buffer. *)
C3_ErrorCarriesBothCounts ==
    (GuardReturned /\ last.ret.tag = "Err") =>
        /\ last.ret.kind = "UnexpectedEof"
        /\ ByteCounts(last.ret.message)
               = <<last.arg, remaining(entry.buf, entry.pos)>>
        /\ (entry.pos = 0 /\ Len(entry.buf) + 1 = last.arg)
               => ByteCounts(last.ret.message) = <<last.arg, Len(entry.buf)>>

C3_Witness ==
    /\ GuardReturned
    /\ last.ret.tag = "Err"
    /\ entry.pos = 0
    /\ Len(entry.buf) = 2
    /\ last.arg = 3

(* C4: no decoder reads past the end of the buffer: through any sequence of
   decode calls the cursor position is at most the buffer length, a read is
   issued only while at least PACKET_SIZE bytes remain, and no read panics. *)
C4_NoReadPastEnd ==
    /\ pos <= Len(buf)
    /\ pc = "guarded" => remaining(buf, pos) >= PACKET_SIZE
    /\ last.ret.tag # "Panic"

C4_Witness ==
    /\ pc = "guarded"
    /\ pos > 0
    /\ remaining(buf, pos) = PACKET_SIZE

(* C5: retry after insufficient data is safe: a decode attempt fails exactly
   while fewer than PACKET_SIZE of the supplied bytes are still unread, the
   first attempt after enough bytes have been appended succeeds, and the
   packet it returns is the one a single attempt on the complete unread
   bytes returns; a failed attempt leaves buffer and position as they were. *)
C5_RetryIsSafe ==
    DecodeReturned =>
        /\ last.ret.tag = "Err" <=> Len(entry.unread) < PACKET_SIZE
        /\ last.ret.tag = "Ok" <=> Len(entry.unread) >= PACKET_SIZE
        /\ last.ret.tag = "Ok" => last.ret = OkPacket(Head(entry.unread))
        /\ last.ret.tag = "Err" => (buf = entry.buf /\ pos = entry.pos /\ retrying)

C5_Witness ==
    /\ DecodeReturned
    /\ entry.retrying
    /\ last.ret.tag = "Ok"
    /\ entry.pos > 0

(* C6: decode_packet with PACKET_SIZE = 1 succeeds on every buffer with at
   least one byte remaining, returns the byte at the cursor position as the
   counter (0 for the buffer [0x00]) and advances the cursor by exactly one;
   with no byte remaining it returns the UnexpectedEof error with expected 1
   and actual 0 and consumes nothing. *)
C6_DecodeOneByte ==
    DecodeReturned =>
        /\ buf = entry.buf
        /\ remaining(entry.buf, entry.pos) >= 1 =>
              /\ last.ret = OkPacket(entry.buf[entry.pos + 1])
              /\ pos = entry.pos + 1
        /\ remaining(entry.buf, entry.pos) = 0 =>
              /\ last.ret.tag = "Err"
              /\ last.ret.kind = "UnexpectedEof"
              /\ ByteCounts(last.ret.message) = <<1, 0>>
              /\ pos = entry.pos
        /\ (entry.buf = <<0>> /\ entry.pos = 0) => last.ret = OkPacket(0)

C6_Witness ==
    /\ DecodeReturned
    /\ entry.buf = <<0>>
    /\ entry.pos = 0
    /\ last.ret.tag = "Ok"
    /\ pos = 1

(* C7: decoding is deterministic: two decode runs started from equal buffer
   contents and equal cursor positions return the same value and leave the
   same cursor position, whatever each caller did before. *)
C7_Deterministic ==
    \A w, v \in Workers :
        (/\ wpc[w] = "done"
         /\ wpc[v] = "done"
         /\ wbuf[w] = wbuf[v]
         /\ wentry[w] = wentry[v])
            => (wres[w] = wres[v] /\ wpos[w] = wpos[v])

C7_Witness ==
    /\ wpc[1] = "done"
    /\ wpc[2] = "done"
    /\ wbuf[1] = wbuf[2]
    /\ wentry[1] = 1
    /\ wentry[2] = 1
    /\ wres[1].tag = "Ok"

(* C8: decode calls running concurrently on separate buffers do not
   interfere: under every interleaving of the two workers' steps no step of
   one worker changes the other worker's buffer or cursor, and a worker's
   result and final position are those of decode_packet run alone from the
   buffer and position the worker started from. *)
C8_NoInterference ==
    [][/\ \A w, v \in Workers :
             (w # v /\ <<wbuf[w], wpos[w], wpc[w], wres[w], wentry[w]>>'
                         # <<wbuf[w], wpos[w], wpc[w], wres[w], wentry[w]>>)
                => (wbuf'[v] = wbuf[v] /\ wpos'[v] = wpos[v])
       /\ \A w \in Workers :
             wpc'[w] = "done" =>
                 /\ wres'[w] = decode_packet(wbuf'[w], wentry'[w]).ret
                 /\ wpos'[w] = decode_packet(wbuf'[w], wentry'[w]).pos]_vars

C8_Witness ==
    /\ wpc[1] = "guarded"
    /\ wpc[2] = "done"
    /\ wres[2].tag = "Ok"
    /\ wentry[2] = 1
    /\ wbuf[1] # wbuf[2]

(* C9: GameVersion values are ordered lexicographically, major first and
   minor second: a < b exactly when a.major < b.major, or the majors are equal
   and a.minor < b.minor; a = b exactly when both fields are equal; and
   (1,5) < (1,9) < (2,0). *)
C9_VersionOrder ==
    /\ ord # "none" =>
          LET less == \/ va.major < vb.major
                      \/ (va.major = vb.major /\ va.minor < vb.minor)
              same == va.major = vb.major /\ va.minor = vb.minor
          IN  /\ lt <=> less
              /\ ord = "Less" <=> less
              /\ eq <=> same
              /\ ord = "Equal" <=> same
              /\ ord = "Greater" <=> (~less /\ ~same)
    /\ (va = [major |-> 1, minor |-> 5] /\ vb = [major |-> 1, minor |-> 9] /\ ord # "none")
          => lt
    /\ (va = [major |-> 1, minor |-> 9] /\ vb = [major |-> 2, minor |-> 0] /\ ord # "none")
          => lt

C9_Witness ==
    /\ va = [major |-> 1, minor |-> 9]
    /\ vb = [major |-> 2, minor |-> 0]
    /\ ord = "Less"
    /\ lt

(* C10: ensure_packet_size measures from the cursor position, not from the
   start of the buffer: with k bytes of an n-byte buffer consumed it succeeds
   exactly when n - k >= expected_size, the actual count in the error is
   n - k (0 when the position is at or past the end), and with
   expected_size = 0 it succeeds on every cursor. *)
C10_MeasuredFromPosition ==
    GuardReturned =>
        LET n == Len(entry.buf)
            k == entry.pos
            actual == IF k >= n THEN 0 ELSE n - k
        IN  /\ last.ret.tag = "Ok" <=> actual >= last.arg
            /\ last.ret.tag = "Err" => ByteCounts(last.ret.message)[2] = actual
            /\ last.arg = 0 => last.ret.tag = "Ok"

C10_Witness ==
    /\ GuardReturned
    /\ entry.pos = 1
    /\ Len(entry.buf) = 3
    /\ last.arg = 3
    /\ last.ret.tag = "Err"

============================================================================
